---- MODULE Spec2Model ----
(***************************************************************************)
(* Model of the Splunk distributed configuration downloader.               *)
(*                                                                         *)
(* Two variants of one linear workflow are modelled side by side:          *)
(*   raw : src/downloader.py + src/src/authent.py + src/src/utils.py       *)
(*   sdk : src/distributed_configuration_downloader/{downloader,splunk,    *)
(*         utils}.py                                                       *)
(*                                                                         *)
(* Python strings that pass through str(), lower(), f-strings, split() or  *)
(* os.path.splitext() are sequences of one-character strings, so that the  *)
(* conversions are computed and not assumed.                               *)
(***************************************************************************)
EXTENDS Integers, Sequences, FiniteSets, TLC

----------------------------------------------------------------------------
(* Python values: None, bool, str.  One record shape for all three.        *)

PyNone == [k |-> "none", s |-> <<>>, b |-> FALSE]
PyBool(x) == [k |-> "bool", s |-> <<>>, b |-> x]
PyS(x) == [k |-> "str", s |-> x, b |-> FALSE]

sTrue == <<"T", "r", "u", "e">>
sFalse == <<"F", "a", "l", "s", "e">>
sNone == <<"N", "o", "n", "e">>

\* str(v)
PyStr(v) ==
  IF v.k = "str" THEN v.s
  ELSE IF v.k = "bool" THEN (IF v.b THEN sTrue ELSE sFalse)
  ELSE sNone

\* bool(v), as used by `not v` and `if v`
Truthy(v) ==
  \/ v.k = "str" /\ v.s # <<>>
  \/ v.k = "bool" /\ v.b

\* the upper-case letters that occur in the model's strings
LowerChar(c) ==
  CASE c = "T" -> "t"
    [] c = "F" -> "f"
    [] c = "N" -> "n"
    [] c = "Y" -> "y"
    [] c = "E" -> "e"
    [] c = "S" -> "s"
    [] c = "R" -> "r"
    [] c = "U" -> "u"
    [] OTHER -> c

\* str.lower()
Lower(s) == [i \in DOMAIN s |-> LowerChar(s[i])]

----------------------------------------------------------------------------
(* src/src/utils.py and src/distributed_configuration_downloader/utils.py  *)

TrueSpellings ==
  { <<"y", "e", "s">>, <<"t", "r", "u", "e">>, <<"t">>, <<"1">> }

\* str2bool(v): str(v).lower() in ("yes", "true", "t", "1")
str2bool(v) == Lower(PyStr(v)) \in TrueSpellings

\* ssl_verify(verify): the `return verify` is inside `if not verify:`, so a
\* true argument falls off the end of the function and yields None.
ssl_verify(verify) == IF ~verify THEN PyBool(verify) ELSE PyNone

----------------------------------------------------------------------------
(* String constants of the program                                         *)

sBearer == <<"B", "e", "a", "r", "e", "r", " ">>
sSplunk == <<"S", "p", "l", "u", "n", "k", " ">>
sSpecIndexes == <<"{", "\"", "i", "n", "c", "l", "u", "d", "e", "_", "i", "n", "d", "e", "x", "e", "s", "\"", ":">>
sSpecProperties == <<",", " ", "\"", "i", "n", "c", "l", "u", "d", "e", "_", "p", "r", "o", "p", "e", "r", "t", "i", "e", "s", "\"", ":">>
sSpecClose == <<"}">>
sFilenameEq == <<"f", "i", "l", "e", "n", "a", "m", "e", "=">>
sSplunkUnderscore == <<"S", "p", "l", "u", "n", "k", "_">>
sDot == <<".">>

\* URI_DOWNLOADAPP (raw) and PATH_DOWNLOADAPP (sdk): the same path
URI_DOWNLOADAPP == <<"/", "s", "e", "r", "v", "i", "c", "e", "s", "/", "d", "a", "t", "a", "/", "a", "p", "p", "m", "a", "k", "e", "r", "/", "d", "o", "w", "n", "l", "o", "a", "d", "a", "p", "p">>

\* the routines dictionary: key -> fully qualified routine identifier
RoutineKeys == {"index_time_properties", "on_prem"}

routines ==
  [r \in RoutineKeys |->
     IF r = "index_time_properties"
       THEN "make_index_time_properties:makeIndexTimeProperties"
       ELSE "make_on_prem:makeOnPrem"]

\* config.get("app.routine") when nothing configured a routine
NoRoutine == "<None>"

----------------------------------------------------------------------------
(* Authentication                                                          *)

\* raw get_token: `if not splunk_username:`
GetTokenShortCircuit(username, token) == ~Truthy(username)

\* sdk login: `if not kwargs["username"] and kwargs["token"]:`
LoginShortCircuit(username, token) == ~Truthy(username) /\ Truthy(token)

\* a plausible slip: the bearer token sent under the session-key scheme
BearerHeaderWrongScheme(token) == sSplunk \o PyStr(token)

\* {"Authorization": f"Bearer {splunk_token}"}
BearerHeader(token) == sBearer \o PyStr(token)

\* {"Authorization": f"Splunk {token}"}
SplunkHeader(key) == sSplunk \o key

\* Outcomes of the login POST as the server / network can produce them.
LoginOutcomes == {"ok", "status", "network", "nokey"}

\* a plausible slip: a response without sessionKey is swallowed and None is
\* returned, as the docstring of get_token announces
LoginResultLenient(outcome, key) ==
  IF outcome = "ok" THEN [raised |-> FALSE, headers |-> PyS(SplunkHeader(key))]
  ELSE IF outcome = "nokey" THEN [raised |-> FALSE, headers |-> PyNone]
  ELSE [raised |-> TRUE, headers |-> PyNone]

\* raw get_token, the try block and its three except clauses: every failure
\* is re-raised as Exception, success returns the Splunk header.
LoginResult(outcome, key) ==
  IF outcome = "ok" THEN [raised |-> FALSE, headers |-> PyS(SplunkHeader(key))]
  ELSE [raised |-> TRUE, headers |-> PyNone]

----------------------------------------------------------------------------
(* set_data: identical in both variants                                    *)

NoPayload == [ok |-> FALSE, routine |-> "", hasSpec |-> FALSE, spec |-> <<>>]

\* routines[None] raises KeyError (ok = FALSE); otherwise the payload
set_data(routine, indexes, properties) ==
  IF routine \notin RoutineKeys THEN NoPayload
  ELSE [ok |-> TRUE,
        routine |-> routines[routine],
        hasSpec |-> (routine = "index_time_properties"),
        spec |-> IF routine = "index_time_properties"
                   THEN sSpecIndexes \o Lower(PyStr(indexes))
                        \o sSpecProperties \o Lower(PyStr(properties))
                        \o sSpecClose
                   ELSE <<>>]

----------------------------------------------------------------------------
(* File-name derivation                                                    *)

IsAt(s, pat, i) ==
  /\ i + Len(pat) - 1 <= Len(s)
  /\ \A j \in 1..Len(pat) : s[i + j - 1] = pat[j]

Occurrences(s, pat, from) == {i \in from..Len(s) : IsAt(s, pat, i)}

Min(S) == CHOOSE x \in S : \A y \in S : x <= y
Max(S) == CHOOSE x \in S : \A y \in S : x >= y

\* s.split(pat)[1]: the text between the first and the second occurrence of
\* pat; IndexError (ok = FALSE) when pat does not occur.
SplitSecond(s, pat) ==
  IF Occurrences(s, pat, 1) = {} THEN [ok |-> FALSE, s |-> <<>>]
  ELSE LET start == Min(Occurrences(s, pat, 1)) + Len(pat)
           rest == Occurrences(s, pat, start)
           stop == IF rest = {} THEN Len(s) ELSE Min(rest) - 1
       IN [ok |-> TRUE, s |-> SubSeq(s, start, stop)]

\* s.split("/")[-1]
LastSegment(s) ==
  LET seps == {i \in 1..Len(s) : s[i] = "/"}
  IN IF seps = {} THEN s ELSE SubSeq(s, Max(seps) + 1, Len(s))

\* str.rfind(c), 1-based, 0 when c does not occur
RFind(s, c) ==
  LET at == {i \in 1..Len(s) : s[i] = c}
  IN IF at = {} THEN 0 ELSE Max(at)

\* a plausible slip: the derived extension is not stripped
splitextKeepAll(p) == <<p, <<>>>>

\* os.path.splitext(p): split at the last dot of the last path component,
\* unless only dots precede it in that component.
splitext(p) ==
  LET sepIndex == RFind(p, "/")
      dotIndex == RFind(p, ".")
  IN IF /\ dotIndex > sepIndex
        /\ \E i \in (sepIndex + 1)..(dotIndex - 1) : p[i] # "."
       THEN <<SubSeq(p, 1, dotIndex - 1), SubSeq(p, dotIndex, Len(p))>>
       ELSE <<p, <<>>>>

NoName == [ok |-> FALSE, err |-> "", name |-> <<>>]

\* name + '.' + extension; TypeError when extension is None
NewFilename(filename, extension) ==
  IF extension.k # "str" THEN [NoName EXCEPT !.err = "TypeError"]
  ELSE [ok |-> TRUE, err |-> "",
        name |-> splitext(filename)[1] \o sDot \o extension.s]

\* raw download_app, the lines from the Content-Disposition test to
\* new_filename.  header is PyNone when the response has no such header.
\* The else branch reads URL_DOWNLOADAPP, a name that is never defined.
RawDerive(header, extension) ==
  IF header.k = "str"
    THEN IF SplitSecond(header.s, sFilenameEq).ok
           THEN NewFilename(SplitSecond(header.s, sFilenameEq).s, extension)
           ELSE [NoName EXCEPT !.err = "IndexError"]
    ELSE [NoName EXCEPT !.err = "NameError"]

\* sdk download_app, the same lines: the fallback is
\* PATH_DOWNLOADAPP.split("/")[-1] + "." + extension, and "Splunk_" is put
\* in front of the name in both branches.
SdkDerive(header, extension) ==
  IF header.k = "str"
    THEN IF SplitSecond(header.s, sFilenameEq).ok
           THEN NewFilename(sSplunkUnderscore
                              \o SplitSecond(header.s, sFilenameEq).s,
                            extension)
           ELSE [NoName EXCEPT !.err = "IndexError"]
    ELSE IF extension.k # "str" THEN [NoName EXCEPT !.err = "TypeError"]
    ELSE NewFilename(sSplunkUnderscore \o LastSegment(URI_DOWNLOADAPP)
                       \o sDot \o extension.s,
                     extension)

\* Path(directory).absolute(): the working directory in front
sCwd == <<"/", "c", "w", "d", "/">>
AbsPath(directory) == sCwd \o directory

\* a plausible slip: failure reported by returning None, as the docstring
\* of ensure_directory announces
ensure_directoryReturnsNone(directory, dirOut) ==
  IF dirOut = "ok" THEN [raised |-> FALSE, path |-> PyS(AbsPath(directory))]
  ELSE [raised |-> FALSE, path |-> PyNone]

\* raw ensure_directory: the absolute path, or an exception (mkdir failed,
\* or the path is not a directory); it has no path that returns None.
ensure_directory(directory, dirOut) ==
  IF dirOut = "ok" THEN [raised |-> FALSE, path |-> PyS(AbsPath(directory))]
  ELSE [raised |-> TRUE, path |-> PyNone]

\* sdk ensure_directory (splunk.py): the same without the re-raise wrappers
sdk_ensure_directory(directory, dirOut) ==
  IF dirOut = "ok" THEN [raised |-> FALSE, path |-> PyS(AbsPath(directory))]
  ELSE [raised |-> TRUE, path |-> PyNone]

----------------------------------------------------------------------------
(* Inputs: what the operator configures and what the server answers        *)

\* longest stem, in characters, of a file name offered by the server
MaxStemLen == 2

sAdmin == <<"a", "d", "m", "i", "n">>
sTok == <<"t", "o", "k">>
sYes == <<"y", "e", "s">>
sNo == <<"n", "o">>
sDotSlash == <<".", "/">>
sOut == <<"o", "u", "t">>
sSpl == <<"s", "p", "l">>
sTarGz == <<"t", "a", "r", ".", "g", "z">>
sTgz == <<"t", "g", "z">>
sInline == <<"i", "n", "l", "i", "n", "e">>
sAttachment == <<"a", "t", "t", "a", "c", "h", "m", "e", "n", "t", ";", " ">>

Usernames == {PyNone, PyS(<<>>), PyS(sAdmin)}
Tokens == {PyNone, PyS(sTok)}
VerifyOpts == {PyS(sFalse), PyBool(TRUE), PyS(sYes)}
Toggles == {PyS(sFalse), PyBool(TRUE)}
Outputs == {sDotSlash, sOut}
Extensions == {PyS(sTgz), PyNone}
Passwords == {<<"p", "w">>}
SessionKeys == {<<"k", "1">>}
AppDescs == {[namespace |-> "SA-Utils", filename |-> "pkg.spl"]}

\* the configurations a run is started with
Configs ==
  [username : Usernames, token : Tokens, verify : VerifyOpts,
   routine : RoutineKeys \cup {NoRoutine},
   indexes : Toggles, properties : Toggles,
   output : Outputs, extension : Extensions]

\* every extension the command line accepts, and none
AllExtensions == {PyS(sSpl), PyS(sTarGz), PyS(sTgz), PyNone}

\* token-authenticated runs over every output directory and extension
DownloadConfigs ==
  [username : {PyNone}, token : {PyS(sTok)}, verify : {PyS(sFalse)},
   routine : {"on_prem"},
   indexes : {PyS(sFalse)}, properties : {PyS(sFalse)},
   output : Outputs, extension : AllExtensions]

NoConfig ==
  [username |-> PyNone, token |-> PyNone, verify |-> PyNone,
   routine |-> NoRoutine, indexes |-> PyNone, properties |-> PyNone,
   output |-> <<>>, extension |-> PyNone]

\* file names the server can put after "filename=": stems over {f, .} with
\* no, one or two dotted suffixes
Stems == UNION {[1..k -> {"f", "."}] : k \in 0..MaxStemLen}
ExtTails == {<<>>, <<".", "t">>, <<".", "t", ".", "g">>}
Names == {b \o x : b \in Stems, x \in ExtTails} \ {<<>>}

\* Content-Disposition of the download response: absent, present without a
\* filename parameter, or "attachment; filename=<name>"
DispositionHeaders ==
  {PyNone, PyS(sInline)}
    \cup {PyS(sAttachment \o sFilenameEq \o n) : n \in Names}

\* the three kinds of header, with one file name
FewHeaders ==
  {PyNone, PyS(sInline), PyS(sAttachment \o sFilenameEq \o <<"f", ".", "t">>)}

NoDesc == [namespace |-> "", filename |-> ""]

Absent == [cli |-> PyNone, file |-> PyNone, env |-> PyNone]
NoSources == [output |-> Absent, verify |-> Absent]

Call(ep, auth, user, pass, ver, payload, params, outcome) ==
  [ep |-> ep, auth |-> auth, user |-> user, pass |-> pass, verify |-> ver,
   data |-> payload, params |-> params, outcome |-> outcome]

----------------------------------------------------------------------------
(* State                                                                   *)

\* A file left in ./out by an earlier run, under the name this run would
\* give its artifact.
OldFile ==
  [dir |-> AbsPath(sOut), name |-> <<"f", ".", "t", "g", "z">>,
   content |-> "old"]

VARIABLES
  sources,      \* what the command line, the config file and the
                \* environment gave for the options resolved from them
  variant,      \* "raw" or "sdk": which main() runs
  pc,           \* position in main()
  config,       \* the resolved configuration
  verify,       \* main's local `verify`
  headers,      \* raw: the credential header; sdk: the service's token
  data,         \* set_data's payload
  app,          \* the descriptor make_app returned
  net,          \* the requests issued so far, in order, with their outcome
  prompts,      \* number of getpass prompts
  password,     \* what the operator typed at the prompt
  dirCreated,   \* ensure_directory made the output directory
  files,        \* the files written, in order
  disk,         \* the files present under the output directories
  respHeader,   \* Content-Disposition of the download response
  exitcode,     \* the process's exit status once pc = "exit"
  failedAt,     \* the stage that ended the run, "none" while none did
  cause,        \* why that stage failed
  loggedOut     \* sdk: service.logout() was called

vars ==
  <<sources, variant, pc, config, verify, headers, data, app, net, prompts, password,
    dirCreated, files, disk, respHeader, exitcode, failedAt, cause, loggedOut>>

Init ==
  /\ sources = NoSources
  /\ variant \in {"raw", "sdk"}
  /\ pc = "start"
  /\ config = NoConfig
  /\ verify = PyNone
  /\ headers = PyNone
  /\ data = NoPayload
  /\ app = NoDesc
  /\ net = <<>>
  /\ prompts = 0
  /\ password = PyNone
  /\ dirCreated = FALSE
  /\ files = <<>>
  /\ disk \in {{}, {OldFile}}
  /\ respHeader = PyNone
  /\ exitcode = -1
  /\ failedAt = "none"
  /\ cause = ""
  /\ loggedOut = FALSE

\* the process ends: exit(code), or an uncaught exception (status 1)
Exit(code, stage, why) ==
  /\ pc' = "exit"
  /\ exitcode' = code
  /\ failedAt' = stage
  /\ cause' = why

----------------------------------------------------------------------------
(* raw-HTTP variant: src/downloader.py main()                              *)

\* config = make_config(); verify = ssl_verify(str2bool(config.get("ssl.verify")))
RawConfigureFrom(C) ==
  /\ variant = "raw" /\ pc = "start"
  /\ config' \in C
  /\ verify' = ssl_verify(str2bool(config'.verify))
  /\ pc' = "config"
  /\ UNCHANGED <<sources, variant, headers, data, app, net, prompts, password,
                 dirCreated, files, disk, respHeader, exitcode, failedAt, cause,
                 loggedOut>>

RawConfigure == RawConfigureFrom(Configs)

\* headers = authent.get_token(url, username, token), the early return
RawGetTokenBearer ==
  /\ variant = "raw" /\ pc = "config"
  /\ GetTokenShortCircuit(config.username, config.token)
  /\ headers' = PyS(BearerHeader(config.token))
  /\ pc' = "authed"
  /\ UNCHANGED <<sources, variant, config, verify, data, app, net, prompts, password,
                 dirCreated, files, disk, respHeader, exitcode, failedAt, cause,
                 loggedOut>>

\* get_token past the early return: prompt, POST to the login endpoint.
\* main does not pass verify, so the login client runs with the default
\* verify=False.  An exception from get_token is not caught by main.
RawGetTokenLogin ==
  /\ variant = "raw" /\ pc = "config"
  /\ ~GetTokenShortCircuit(config.username, config.token)
  /\ \E pw \in Passwords, outcome \in LoginOutcomes, key \in SessionKeys :
       LET r == LoginResult(outcome, key)
       IN /\ prompts' = prompts + 1
          /\ password' = PyS(pw)
          /\ net' = Append(net, Call("login", PyNone, config.username, PyS(pw),
                                     PyBool(FALSE), NoPayload, NoDesc, outcome))
          /\ IF r.raised
               THEN /\ Exit(1, "login", outcome)
                    /\ UNCHANGED headers
               ELSE /\ headers' = r.headers
                    /\ pc' = "authed"
                    /\ UNCHANGED <<exitcode, failedAt, cause>>
  /\ UNCHANGED <<sources, variant, config, verify, data, app, dirCreated, files, disk,
                 respHeader, loggedOut>>

\* data = set_data(config, routines); a KeyError is not caught
RawSetData ==
  /\ variant = "raw" /\ pc = "authed"
  /\ LET d == set_data(config.routine, config.indexes, config.properties)
     IN IF d.ok
          THEN /\ data' = d
               /\ pc' = "data"
               /\ UNCHANGED <<exitcode, failedAt, cause>>
          ELSE /\ Exit(1, "set_data", "KeyError")
               /\ UNCHANGED data
  /\ UNCHANGED <<sources, variant, config, verify, headers, app, net, prompts,
                 password, dirCreated, files, disk, respHeader, loggedOut>>

MakeAppOutcomes == {"ok", "status", "network", "badjson"}

\* a plausible slip: one exit status for both handled failures
MakeAppExitSame(outcome) ==
  IF outcome \in {"status", "network"} THEN 2 ELSE 1

\* make_app's except clauses: HTTPStatusError -> exit(2), RequestError ->
\* exit(3); a body that is not JSON raises out of response.json() uncaught.
MakeAppExit(outcome) ==
  IF outcome = "status" THEN 2 ELSE IF outcome = "network" THEN 3 ELSE 1

\* app = make_app(url, headers, verify, data)
RawMakeApp ==
  /\ variant = "raw" /\ pc = "data"
  /\ \E outcome \in MakeAppOutcomes, d \in AppDescs :
       /\ net' = Append(net, Call("makeapp", headers, PyNone, PyNone, verify,
                                  data, NoDesc, outcome))
       /\ IF outcome = "ok"
            THEN /\ app' = d
                 /\ pc' = "app"
                 /\ UNCHANGED <<exitcode, failedAt, cause>>
            ELSE /\ Exit(MakeAppExit(outcome), "makeapp", outcome)
                 /\ UNCHANGED app
  /\ UNCHANGED <<sources, variant, config, verify, headers, data, prompts, password,
                 dirCreated, files, disk, respHeader, loggedOut>>

DirOutcomes == {"exists", "created", "error"}
GetOutcomes == {"ok", "status", "network"}
WriteOutcomes == {"ok", "oserror"}

\* Path(directory).exists() is true of a directory that holds a file, so
\* mkdir is reached only when none is there.
DirAnswers(d, directory) ==
  IF \E f \in d : f.dir = AbsPath(directory)
    THEN DirOutcomes \ {"created"}
    ELSE DirOutcomes

\* open(path, mode="wb") and file.write(response.content): the file is
\* created, or truncated and rewritten, with the response body.
WriteFiles(d, wrote) ==
  IF wrote = <<>>
    THEN d
    ELSE {f \in d : ~(f.dir = wrote[1].dir /\ f.name = wrote[1].name)}
           \cup {[dir |-> wrote[1].dir, name |-> wrote[1].name,
                  content |-> "new"]}

DirOk(dirOut) == IF dirOut = "error" THEN "error" ELSE "ok"

NoEffect ==
  [mkdir |-> FALSE, calls |-> <<>>, wrote |-> <<>>, resp |-> PyNone,
   app |-> NoDesc, exit |-> 0, stage |-> "none", why |-> ""]

RawDownloadOpenFirst(cfg, hdrs, ver, appd, dirOut, getOut, hdr, writeOut) ==
  LET dir == ensure_directory(cfg.output, DirOk(dirOut))
      made == [NoEffect EXCEPT !.mkdir = (dirOut = "created")]
      get == Call("downloadapp", hdrs, PyNone, PyNone, ver, NoPayload, appd,
                  getOut)
      name == RawDerive(hdr, cfg.extension)
      file == IF name.ok /\ writeOut = "ok"
                THEN <<[dir |-> dir.path.s, name |-> name.name]>>
                ELSE <<>>
  IN IF dir.raised
       THEN [NoEffect EXCEPT !.exit = 1, !.stage = "download", !.why = "mkdir"]
     ELSE IF ~Truthy(dir.path)
       THEN made
     ELSE IF getOut # "ok"
       THEN [made EXCEPT !.calls = <<get>>, !.wrote = file, !.exit = 1,
                         !.stage = "download", !.why = getOut]
     ELSE IF ~name.ok
       THEN [made EXCEPT !.calls = <<get>>, !.resp = hdr, !.exit = 1,
                         !.stage = "download", !.why = name.err]
     ELSE IF writeOut # "ok"
       THEN [made EXCEPT !.calls = <<get>>, !.resp = hdr, !.exit = 1,
                         !.stage = "download", !.why = "open"]
     ELSE [made EXCEPT !.calls = <<get>>, !.resp = hdr, !.wrote = file]

\* raw download_app as a function of what the file system and the server
\* answer: the directory made, the requests issued, the file written and how
\* the call ends (exit 0: it returned; exit 1: an uncaught exception).
RawDownload(cfg, hdrs, ver, appd, dirOut, getOut, hdr, writeOut) ==
  LET dir == ensure_directory(cfg.output, DirOk(dirOut))
      made == [NoEffect EXCEPT !.mkdir = (dirOut = "created")]
      get == Call("downloadapp", hdrs, PyNone, PyNone, ver, NoPayload, appd,
                  getOut)
      name == RawDerive(hdr, cfg.extension)
  IN IF dir.raised
       THEN [NoEffect EXCEPT !.exit = 1, !.stage = "download", !.why = "mkdir"]
     ELSE IF ~Truthy(dir.path)
       THEN made
     ELSE IF getOut # "ok"
       THEN [made EXCEPT !.calls = <<get>>, !.exit = 1, !.stage = "download",
                         !.why = getOut]
     ELSE IF ~name.ok
       THEN [made EXCEPT !.calls = <<get>>, !.resp = hdr, !.exit = 1,
                         !.stage = "download", !.why = name.err]
     ELSE IF writeOut # "ok"
       THEN [made EXCEPT !.calls = <<get>>, !.resp = hdr, !.exit = 1,
                         !.stage = "download", !.why = "open"]
     ELSE [made EXCEPT !.calls = <<get>>, !.resp = hdr,
                       !.wrote = <<[dir |-> dir.path.s, name |-> name.name]>>]

\* download_app(url, headers, verify, app, output, extension); main ends
RawDownloadAppWith(H) ==
  /\ variant = "raw" /\ pc = "app"
  /\ \E dirOut \in DirAnswers(disk, config.output), getOut \in GetOutcomes,
        hdr \in H, writeOut \in WriteOutcomes :
       LET r == RawDownload(config, headers, verify, app, dirOut, getOut, hdr,
                            writeOut)
       IN /\ dirCreated' = (dirCreated \/ r.mkdir)
          /\ net' = net \o r.calls
          /\ files' = files \o r.wrote
          /\ disk' = WriteFiles(disk, r.wrote)
          /\ respHeader' = r.resp
          /\ Exit(r.exit, r.stage, r.why)
  /\ UNCHANGED <<sources, variant, config, verify, headers, data, app, prompts,
                 password, loggedOut>>

RawDownloadApp == RawDownloadAppWith(FewHeaders)

RawNext ==
  \/ RawConfigure
  \/ RawGetTokenBearer
  \/ RawGetTokenLogin
  \/ RawSetData
  \/ RawMakeApp
  \/ RawDownloadApp

----------------------------------------------------------------------------
(* SDK-backed variant: src/distributed_configuration_downloader            *)
(*                                                                         *)
(* splunklib is not part of the repository.  What the model takes from it: *)
(* Service(kwargs) reads the keys "username", "password" (default "")    *)
(* and "token"; login() with a token and no username issues no request,    *)
(* otherwise it POSTs username and password to the login endpoint; post()  *)
(* and get() raise on an error status or a network failure; logout() only  *)
(* forgets the token.                                                      *)

\* args = make_config(); verify = ssl_verify(str2bool(args_ssl.get("verify")))
SdkConfigureFrom(C) ==
  /\ variant = "sdk" /\ pc = "start"
  /\ config' \in C
  /\ verify' = ssl_verify(str2bool(config'.verify))
  /\ pc' = "config"
  /\ UNCHANGED <<sources, variant, headers, data, app, net, prompts, password,
                 dirCreated, files, disk, respHeader, exitcode, failedAt, cause,
                 loggedOut>>

SdkConfigure == SdkConfigureFrom(Configs)

\* login(), first branch: Splunk(kwargs); service.login() has a token and
\* no username, and returns without a request
SdkLoginToken ==
  /\ variant = "sdk" /\ pc = "config"
  /\ LoginShortCircuit(config.username, config.token)
  /\ headers' = PyS(PyStr(config.token))
  /\ pc' = "authed"
  /\ UNCHANGED <<sources, variant, config, verify, data, app, net, prompts, password,
                 dirCreated, files, disk, respHeader, exitcode, failedAt, cause,
                 loggedOut>>

\* The prompted password is stored under kwargs["passowrd"]; the Service
\* reads kwargs.get("password", ""), so it logs in with the empty password.
SdkServicePassword(pw) == PyS(<<>>)

SdkLoginOutcomes == {"ok", "status", "network"}

\* login(), else branch: prompt, Splunk(kwargs), service.login() POSTs
SdkLoginPassword ==
  /\ variant = "sdk" /\ pc = "config"
  /\ ~LoginShortCircuit(config.username, config.token)
  /\ \E pw \in Passwords, outcome \in SdkLoginOutcomes, key \in SessionKeys :
       /\ prompts' = prompts + 1
       /\ password' = PyS(pw)
       /\ net' = Append(net, Call("login", PyNone, config.username,
                                  SdkServicePassword(pw), verify, NoPayload,
                                  NoDesc, outcome))
       /\ IF outcome = "ok"
            THEN /\ headers' = PyS(SplunkHeader(key))
                 /\ pc' = "authed"
                 /\ UNCHANGED <<exitcode, failedAt, cause>>
            ELSE /\ Exit(1, "login", outcome)
                 /\ UNCHANGED headers
  /\ UNCHANGED <<sources, variant, config, verify, data, app, dirCreated, files, disk,
                 respHeader, loggedOut>>

\* params = set_data(args_app, routines)
SdkSetData ==
  /\ variant = "sdk" /\ pc = "authed"
  /\ LET d == set_data(config.routine, config.indexes, config.properties)
     IN IF d.ok
          THEN /\ data' = d
               /\ pc' = "data"
               /\ UNCHANGED <<exitcode, failedAt, cause>>
          ELSE /\ Exit(1, "set_data", "KeyError")
               /\ UNCHANGED data
  /\ UNCHANGED <<sources, variant, config, verify, headers, app, net, prompts,
                 password, dirCreated, files, disk, respHeader, loggedOut>>

\* DistributedConfigurationManagement.download_app with make_app inside it,
\* as a function of what the file system and the server answer.  Nothing in
\* it or in main catches an exception.  params always carries "routine"
\* here, so make_app is always called.
SdkDownload(cfg, token, ver, payload, dirOut, mkOut, desc, getOut, hdr, writeOut) ==
  LET dir == sdk_ensure_directory(cfg.output, DirOk(dirOut))
      made == [NoEffect EXCEPT !.mkdir = (dirOut = "created")]
      post == Call("makeapp", token, PyNone, PyNone, ver, payload, NoDesc,
                   mkOut)
      get == Call("downloadapp", token, PyNone, PyNone, ver, NoPayload, desc,
                  getOut)
      name == SdkDerive(hdr, cfg.extension)
  IN IF dir.raised
       THEN [NoEffect EXCEPT !.exit = 1, !.stage = "download", !.why = "mkdir"]
     ELSE IF ~Truthy(dir.path)
       THEN made
     ELSE IF mkOut # "ok"
       THEN [made EXCEPT !.calls = <<post>>, !.exit = 1, !.stage = "makeapp",
                         !.why = mkOut]
     ELSE IF getOut # "ok"
       THEN [made EXCEPT !.calls = <<post, get>>, !.app = desc, !.exit = 1,
                         !.stage = "download", !.why = getOut]
     ELSE IF ~name.ok
       THEN [made EXCEPT !.calls = <<post, get>>, !.app = desc, !.resp = hdr,
                         !.exit = 1, !.stage = "download", !.why = name.err]
     ELSE IF writeOut # "ok"
       THEN [made EXCEPT !.calls = <<post, get>>, !.app = desc, !.resp = hdr,
                         !.exit = 1, !.stage = "download", !.why = "open"]
     ELSE [made EXCEPT !.calls = <<post, get>>, !.app = desc, !.resp = hdr,
                       !.wrote = <<[dir |-> dir.path.s, name |-> name.name]>>]

\* service.distributed_configuration_management.download_app(output,
\* extension, params); an exception ends the process before logout
SdkDownloadAppWith(H) ==
  /\ variant = "sdk" /\ pc = "data"
  /\ \E dirOut \in DirAnswers(disk, config.output), mkOut \in MakeAppOutcomes, d \in AppDescs,
        getOut \in GetOutcomes, hdr \in H, writeOut \in WriteOutcomes :
       LET r == SdkDownload(config, headers, verify, data, dirOut, mkOut, d,
                            getOut, hdr, writeOut)
       IN /\ dirCreated' = (dirCreated \/ r.mkdir)
          /\ net' = net \o r.calls
          /\ files' = files \o r.wrote
          /\ disk' = WriteFiles(disk, r.wrote)
          /\ respHeader' = r.resp
          /\ app' = r.app
          /\ IF r.exit = 0
               THEN /\ pc' = "downloaded"
                    /\ UNCHANGED <<exitcode, failedAt, cause>>
               ELSE Exit(r.exit, r.stage, r.why)
  /\ UNCHANGED <<sources, variant, config, verify, headers, data, prompts, password,
                 loggedOut>>

SdkDownloadApp == SdkDownloadAppWith(FewHeaders)

\* service.logout(); print("[+] Done."); main returns
SdkLogout ==
  /\ variant = "sdk" /\ pc = "downloaded"
  /\ loggedOut' = TRUE
  /\ Exit(0, "none", "")
  /\ UNCHANGED <<sources, variant, config, verify, headers, data, app, net, prompts,
                 password, dirCreated, files, disk, respHeader>>

SdkNext ==
  \/ SdkConfigure
  \/ SdkLoginToken
  \/ SdkLoginPassword
  \/ SdkSetData
  \/ SdkDownloadApp
  \/ SdkLogout

\* one run of either program
Next == RawNext \/ SdkNext

Spec == Init /\ [][Next]_vars

----------------------------------------------------------------------------
(* Properties of a run                                                     *)

CallsTo(ep) == {i \in DOMAIN net : net[i].ep = ep}

Succeeded == pc = "exit" /\ exitcode = 0

PastAuth == pc \notin {"start", "config"}

\* C1: in the raw-HTTP run the stages come in the order authenticate,
\* make_app, download_app and each is fatal: a makeapp POST carries the
\* credential header get_token returned and follows nothing but a successful
\* login; a download GET follows a successful makeapp POST and carries the
\* descriptor it returned; a request that failed is the last request of the
\* run, and the run has ended with a non-zero status.
C1_StagesInOrderAndFatal ==
  variant = "raw" =>
    /\ \A i \in CallsTo("makeapp") :
         /\ headers.k = "str" /\ net[i].auth = headers
         /\ \A j \in 1..(i - 1) : net[j].ep = "login" /\ net[j].outcome = "ok"
    /\ \A i \in CallsTo("downloadapp") :
         /\ app # NoDesc /\ net[i].params = app
         /\ i > 1 /\ net[i - 1].ep = "makeapp" /\ net[i - 1].outcome = "ok"
    /\ \A i \in DOMAIN net :
         net[i].outcome # "ok" => i = Len(net) /\ pc = "exit" /\ exitcode # 0

\* a raw run that logged in with a password, made the app and downloaded it
C1_Witness ==
  /\ variant = "raw" /\ Succeeded
  /\ Len(net) = 3
  /\ net[1].ep = "login" /\ net[2].ep = "makeapp" /\ net[3].ep = "downloadapp"

\* C2: in both variants each of the three endpoints is called at most once,
\* and a run that ends successfully holds one credential, has issued exactly
\* one makeapp request with it, exactly one downloadapp request with the
\* same credential and the descriptor makeapp returned, and has written
\* exactly one file.
C2_ExactlyOnce ==
  /\ \A ep \in {"login", "makeapp", "downloadapp"} :
       Cardinality(CallsTo(ep)) <= 1
  /\ Succeeded =>
       /\ headers.k = "str"
       /\ \E i \in CallsTo("makeapp") :
            net[i].auth = headers /\ net[i].outcome = "ok"
       /\ \E i \in CallsTo("downloadapp") :
            /\ net[i].auth = headers /\ net[i].outcome = "ok"
            /\ app # NoDesc /\ net[i].params = app
       /\ Len(files) = 1

\* a successful run of the SDK-backed variant after a password login
C2_Witness ==
  /\ variant = "sdk" /\ Succeeded /\ loggedOut
  /\ Len(net) = 3 /\ Len(files) = 1

\* C3: in the raw-HTTP run a makeapp POST answered with an error status ends
\* the process with exit status 2, one that failed on the network with exit
\* status 3, and in both cases no download GET was issued and no file was
\* written.
C3_MakeAppFailureExit ==
  variant = "raw" =>
    \A i \in CallsTo("makeapp") :
      /\ net[i].outcome = "status" => pc = "exit" /\ exitcode = 2
      /\ net[i].outcome = "network" => pc = "exit" /\ exitcode = 3
      /\ net[i].outcome \in {"status", "network"} =>
           CallsTo("downloadapp") = {} /\ files = <<>>

\* a raw run whose makeapp POST got an error status
C3_Witness ==
  /\ variant = "raw" /\ pc = "exit"
  /\ \E i \in CallsTo("makeapp") : net[i].outcome = "status"

\* C4: with no username and a token, authentication issues no request to the
\* login endpoint and does not prompt, in both variants, and the raw-HTTP
\* header is "Bearer " followed by the token as supplied.
C4_ShortCircuit ==
  (PastAuth /\ ~Truthy(config.username) /\ Truthy(config.token)) =>
    /\ CallsTo("login") = {}
    /\ prompts = 0
    /\ variant = "raw" => headers = PyS(sBearer \o config.token.s)

\* the raw run right after the early return of get_token
C4_Witness ==
  /\ variant = "raw" /\ pc = "authed"
  /\ config.username = PyNone /\ config.token = PyS(sTok)
  /\ headers = PyS(<<"B", "e", "a", "r", "e", "r", " ", "t", "o", "k">>)

\* C5: whenever a username is supplied or no token is present,
\* authentication prompts once and issues a login request carrying the
\* username and the password typed at the prompt, in both variants; the
\* raw-HTTP header after a successful login is "Splunk " followed by the
\* session key, and never a Bearer header.
C5_PasswordLoginOtherwise ==
  (PastAuth /\ (Truthy(config.username) \/ ~Truthy(config.token))) =>
    /\ prompts = 1
    /\ \E i \in CallsTo("login") :
         /\ net[i].user = config.username
         /\ password.k = "str" /\ net[i].pass = password
    /\ (variant = "raw" /\ headers.k = "str") =>
         \E key \in SessionKeys : headers = PyS(sSplunk \o key)

\* C8: a raw-HTTP download answered successfully without a
\* Content-Disposition header completes and writes exactly one file, named
\* after the last path segment of the download endpoint with the requested
\* extension.
C8_FallbackName ==
  ( /\ variant = "raw" /\ pc = "exit"
    /\ \E i \in CallsTo("downloadapp") : net[i].outcome = "ok"
    /\ respHeader = PyNone
    /\ config.extension.k = "str"
    /\ cause # "open" ) =>
    /\ exitcode = 0
    /\ files = <<[dir |-> AbsPath(config.output),
                  name |-> <<"d", "o", "w", "n", "l", "o", "a", "d", "a", "p", "p">>
                           \o sDot \o config.extension.s]>>

\* C10: ssl_verify returns its boolean argument, so in the raw-HTTP run
\* main's verify, and the verify of every makeapp and downloadapp request,
\* is True exactly when the resolved ssl.verify reads yes, true, t or 1 in
\* any letter case, and False otherwise.
C10_VerifyIsStr2Bool ==
  (variant = "raw" /\ pc # "start") =>
    /\ verify = PyBool(Lower(PyStr(config.verify)) \in TrueSpellings)
    /\ \A i \in CallsTo("makeapp") \cup CallsTo("downloadapp") :
         net[i].verify = PyBool(Lower(PyStr(config.verify)) \in TrueSpellings)

----------------------------------------------------------------------------
(* set_data over every value a toggle can resolve to                       *)

\* a toggle is a bool from the command line (--indexes / --no-indexes) or a
\* string from the config file, the environment or the default str(False)
AllToggles ==
  {PyBool(TRUE), PyBool(FALSE), PyS(sFalse), PyS(sTrue),
   PyS(<<"t", "r", "u", "e">>), PyS(sYes), PyS(<<"Y", "E", "S">>),
   PyS(<<"t">>), PyS(<<"1">>), PyS(sNo), PyS(<<"0">>), PyS(<<>>)}

DataConfigs ==
  [username : {PyNone}, token : {PyS(sTok)}, verify : {PyS(sFalse)},
   routine : RoutineKeys \cup {NoRoutine},
   indexes : AllToggles, properties : AllToggles,
   output : {sDotSlash}, extension : {PyS(sTgz)}]

RawConfigureData == RawConfigureFrom(DataConfigs)
SdkConfigureData == SdkConfigureFrom(DataConfigs)

NextData ==
  \/ RawConfigureData
  \/ RawGetTokenBearer
  \/ RawSetData
  \/ SdkConfigureData
  \/ SdkLoginToken
  \/ SdkSetData

\* token-authenticated runs of both variants up to set_data
SpecData == Init /\ [][NextData]_vars

sJsonTrue == <<"t", "r", "u", "e">>
sJsonFalse == <<"f", "a", "l", "s", "e">>
JsonBool(x) == IF x THEN sJsonTrue ELSE sJsonFalse

\* C6: the payload's routine is the fully qualified identifier of the
\* configured routine, spec is present exactly for index_time_properties,
\* and then spec is {"include_indexes":<i>, "include_properties":<p>} with
\* <i> and <p> the JSON literals true or false of the toggles' boolean
\* meaning (yes, true, t, 1 in any letter case are true, all else false).
C6_SpecIsJsonOfToggles ==
  (pc = "data" /\ config.routine \in RoutineKeys) =>
    /\ data.routine = routines[config.routine]
    /\ data.hasSpec <=> config.routine = "index_time_properties"
    /\ data.hasSpec =>
         data.spec = sSpecIndexes
                       \o JsonBool(Lower(PyStr(config.indexes)) \in TrueSpellings)
                       \o sSpecProperties
                       \o JsonBool(Lower(PyStr(config.properties)) \in TrueSpellings)
                       \o sSpecClose

----------------------------------------------------------------------------
(* raw download_app over every file name, output directory and extension   *)

RawConfigureDownload == RawConfigureFrom(DownloadConfigs)
RawDownloadAppAnyName == RawDownloadAppWith(DispositionHeaders)

NextDownload ==
  \/ RawConfigureDownload
  \/ RawGetTokenBearer
  \/ RawSetData
  \/ RawMakeApp
  \/ RawDownloadAppAnyName

\* token-authenticated raw runs, the server free to name the file
SpecDownload == Init /\ [][NextDownload]_vars

\* an extension in the sense of os.path: no dot in it
ExtParts == {<<>>, <<"t">>, <<"g">>}

\* a base name in the sense of os.path: some character of it is not a dot
BaseParts == {n \in Names \cup Stems : \E i \in DOMAIN n : n[i] # "."}

\* C7: when the download succeeds with a Content-Disposition header carrying
\* filename=<base>.<ext>, <ext> being the part after the last dot and <base>
\* a name that is not made of dots only, and the requested extension is one
\* of spl, tar.gz, tgz, then download_app writes one file,
\* <output_dir>/<base>.<extension>, and returns.
C7_HeaderNameKeepsBase ==
  \A base \in BaseParts, ext \in ExtParts :
    ( /\ variant = "raw" /\ pc = "exit"
      /\ \E i \in CallsTo("downloadapp") : net[i].outcome = "ok"
      /\ respHeader = PyS(sAttachment \o sFilenameEq \o base \o sDot \o ext)
      /\ config.extension.k = "str"
      /\ cause # "open" ) =>
      /\ exitcode = 0
      /\ files = <<[dir |-> AbsPath(config.output),
                    name |-> base \o sDot \o config.extension.s]>>

\* filename=f.t.g asked for as tar.gz under out: /cwd/out gets f.t.tar.gz
C7_Witness ==
  /\ variant = "raw" /\ Succeeded
  /\ respHeader = PyS(sAttachment \o sFilenameEq \o <<"f", ".", "t", ".", "g">>)
  /\ config.extension = PyS(sTarGz) /\ config.output = sOut
  /\ files = <<[dir |-> <<"/", "c", "w", "d", "/", "o", "u", "t">>,
                name |-> <<"f", ".", "t", ".", "t", "a", "r", ".", "g", "z">>]>>

----------------------------------------------------------------------------
(* make_config: the layered resolution of one string and one boolean       *)
(* option.  ConfigurationManager (config_manager.py) is not among the      *)
(* sources; set_config is modelled from section 4.1 of the specification.  *)

\* what each source can hold for app.output and for ssl.verify
OutputSources ==
  [cli : {PyNone, PyS(sOut)},
   file : {PyNone, PyS(<<"f">>)},
   env : {PyNone, PyS(<<"e">>)}]

VerifySources ==
  [cli : {PyNone, PyBool(TRUE), PyBool(FALSE)},
   file : {PyNone, PyS(sYes), PyS(sNo)},
   env : {PyNone, PyS(<<"1">>), PyS(<<"0">>)}]

\* add_argument("--output", ..., default="./")
DefaultOutput == PyS(sDotSlash)

\* set_config(section="ssl", key="verify", ..., default=str(False))
DefaultVerify == PyS(PyStr(PyBool(FALSE)))

\* a plausible slip: the environment consulted before the config file
set_configEnvFirst(src, default) ==
  IF src.cli # PyNone THEN src.cli
  ELSE IF src.env # PyNone THEN src.env
  ELSE IF src.file # PyNone THEN src.file
  ELSE default

\* ConfigurationManager.set_config: explicit command-line flag, else the
\* config file's value, else the environment variable, else the default
set_config(src, default) ==
  IF src.cli # PyNone THEN src.cli
  ELSE IF src.file # PyNone THEN src.file
  ELSE IF src.env # PyNone THEN src.env
  ELSE default

\* the other options, resolved to a token-authenticated on_prem run
BaseConfig ==
  [username |-> PyNone, token |-> PyS(sTok), verify |-> DefaultVerify,
   routine |-> "on_prem", indexes |-> PyS(sFalse), properties |-> PyS(sFalse),
   output |-> DefaultOutput.s, extension |-> PyS(sTgz)]

\* make_config() followed by main's verify = ssl_verify(str2bool(...)),
\* the same in both variants
MakeConfig ==
  /\ pc = "start"
  /\ \E o \in OutputSources, v \in VerifySources :
       /\ sources' = [output |-> o, verify |-> v]
       /\ config' = [BaseConfig EXCEPT
                       !.output = PyStr(set_config(o, DefaultOutput)),
                       !.verify = set_config(v, DefaultVerify)]
  /\ verify' = ssl_verify(str2bool(config'.verify))
  /\ pc' = "config"
  /\ UNCHANGED <<variant, headers, data, app, net, prompts, password,
                 dirCreated, files, disk, respHeader, exitcode, failedAt, cause,
                 loggedOut>>

NextConfig == MakeConfig

\* configuration resolution alone, in both variants
SpecConfig == Init /\ [][NextConfig]_vars

\* the value the precedence order picks among the sources s
Picks(s, default, r) ==
  /\ s.cli # PyNone => r = s.cli
  /\ (s.cli = PyNone /\ s.file # PyNone) => r = s.file
  /\ (s.cli = PyNone /\ s.file = PyNone /\ s.env # PyNone) => r = s.env
  /\ (s.cli = PyNone /\ s.file = PyNone /\ s.env = PyNone) => r = default

----------------------------------------------------------------------------
(* Properties of the connection, the file system and the session           *)

\* C11: in the raw-HTTP run the login POST is made with the same verify
\* value as the makeapp POST and the download GET, and when ssl.verify
\* resolves to a true spelling the login POST verifies the certificate.
C11_LoginVerifyAsConfigured ==
  variant = "raw" =>
    \A i \in CallsTo("login") :
      /\ \A j \in CallsTo("makeapp") \cup CallsTo("downloadapp") :
           net[i].verify = net[j].verify
      /\ Lower(PyStr(config.verify)) \in TrueSpellings =>
           net[i].verify = PyBool(TRUE)

\* C12: in both variants, once the login request or the makeapp request has
\* failed, the output directory has not been created and no file has been
\* written.
C12_NoFileSystemEffectBeforeDownload ==
  \A i \in CallsTo("login") \cup CallsTo("makeapp") :
    net[i].outcome # "ok" => ~dirCreated /\ files = <<>>

\* C14: an SDK-backed run in which login() returned a service has called
\* service.logout() by the time the process has ended, however it ended.
C14_LogoutOnEveryExit ==
  (variant = "sdk" /\ pc = "exit" /\ headers.k = "str") => loggedOut

\* C13: a step of the raw download_app whose GET ended in an error status
\* or a network failure creates, truncates and overwrites no file: the files
\* on disk, an earlier artifact of the same name included, are what they
\* were before the step.
C13_FailedGetWritesNothing ==
  [][(/\ variant = "raw" /\ pc = "app"
      /\ Len(net') = Len(net) + 1
      /\ net'[Len(net')].ep = "downloadapp"
      /\ net'[Len(net')].outcome # "ok")
       => (disk' = disk /\ files' = files)]_vars

\* a raw run whose download request failed while ./out held an earlier
\* f.tgz, and the run was to write its artifact as ./out/<stem>.tgz
C13_Witness ==
  /\ variant = "raw" /\ pc = "exit" /\ failedAt = "download"
  /\ \E i \in CallsTo("downloadapp") : net[i].outcome # "ok"
  /\ config.output = sOut /\ config.extension = PyS(sTgz)
  /\ OldFile \in disk

====
